---------------------------- MODULE Spec2Model ----------------------------
(***************************************************************************)
(* A model of pyka3005p's KA3005PSerial (src/src/pyka3005p/               *)
(* ka3005pserial.py): the serial protocol engine of a Korad KA3005P bench  *)
(* power supply.                                                           *)
(*                                                                         *)
(* The program is single threaded and synchronous.  Its run is modelled    *)
(* as a call stack of frames, one per Python call in flight; every action  *)
(* is one step of the topmost frame, between two transport events (a       *)
(* write, a one-byte read, a close).  The pc of a frame is the source      *)
(* line it is about to execute.                                            *)
(*                                                                         *)
(* The transport and the device behind it are the environment: a write     *)
(* makes the device queue a reply chosen from DeviceReplies, a read of one *)
(* byte returns the head of the queue or times out.                        *)
(*                                                                         *)
(* Numbers: a voltage or current is held as an integer count of 1/10000    *)
(* (the finest decimal a five character reply can carry); the Python       *)
(* float it stands for is the IEEE-754 double nearest to that decimal.     *)
(* Bytes are their ASCII codes; a reply is a sequence of codes; a command  *)
(* is a string.                                                            *)
(*                                                                         *)
(* Not modelled: the debug trace (lines 77-78, 85-86, 97-98, 115-116,      *)
(* 133-134, 181-182, 207-208) and the pacing sleep (79, 87), which change  *)
(* nothing the protocol reads.                                             *)
(***************************************************************************)
EXTENDS Integers, Sequences, FiniteSets, TLC

None == "None"

(***************************************************************************)
(* Bounds of the model.                                                    *)
(***************************************************************************)
MaxTimeoutRetry == 2
MaxReadbackRetry == 3
MaxCalls == 1
MaxOpens == 1
MaxLate == 2

(***************************************************************************)
(* ASCII.                                                                  *)
(***************************************************************************)
NUL == 0
DOT == 46
LetterX == 120
DigitCodes == 48..57
Digits == <<"0", "1", "2", "3", "4", "5", "6", "7", "8", "9">>

RECURSIVE Pow(_, _)
Pow(b, k) == IF k = 0 THEN 1 ELSE b * Pow(b, k - 1)

Abs(x) == IF x < 0 THEN -x ELSE x

(***************************************************************************)
(* Python's fixed point formatting "{:0W.Pf}" of a value that is a whole   *)
(* number of 10^-P: the integer part in decimal, a dot, P fraction digits, *)
(* zero filled on the left to W characters.  n is the value in 1/10000.    *)
(***************************************************************************)
RECURSIVE DecStr(_)
DecStr(k) == IF k < 10 THEN Digits[k + 1] ELSE DecStr(k \div 10) \o Digits[(k % 10) + 1]

RECURSIVE FracStr(_, _)
FracStr(f, places) ==
    IF places = 0 THEN "" ELSE FracStr(f \div 10, places - 1) \o Digits[(f % 10) + 1]

RECURSIVE ZFill(_, _)
ZFill(s, w) == IF Len(s) >= w THEN s ELSE ZFill("0" \o s, w)

FormatFixed(n, w, places) ==
    LET k == n \div Pow(10, 4 - places)
        one == Pow(10, places)
    IN  ZFill(DecStr(k \div one) \o "." \o FracStr(k % one, places), w)

VSetCommand(channel, voltage) == "VSET" \o DecStr(channel) \o ":" \o FormatFixed(voltage, 5, 2)
VQueryCommand(channel) == "VSET" \o DecStr(channel) \o "?"
ISetCommand(channel, current) == "ISET" \o DecStr(channel) \o ":" \o FormatFixed(current, 5, 3)
IQueryCommand(channel) == "ISET" \o DecStr(channel) \o "?"
VOutCommand(channel) == "VOUT" \o DecStr(channel) \o "?"
IOutCommand(channel) == "IOUT" \o DecStr(channel) \o "?"
OutCommand(enable) == IF enable THEN "OUT1" ELSE "OUT0"

(***************************************************************************)
(* Python's float(s) on a reply of at most five characters made of digits, *)
(* dots and bytes that occur in no float literal (the device model sends   *)
(* no sign, exponent, blank, underscore or inf/nan letter): <<n>>, n the   *)
(* value in 1/10000, when s is digits with at most one dot and at least    *)
(* one digit; else ValueError, which the callers turn into None (lines     *)
(* 180-183, 206-209), here <<>>.                                           *)
(***************************************************************************)
RECURSIVE NumOf(_)
NumOf(s) == IF s = <<>> THEN 0 ELSE 10 * NumOf(SubSeq(s, 1, Len(s) - 1)) + (s[Len(s)] - 48)

ParseFloat(s) ==
    LET dots == {i \in 1..Len(s) : s[i] = DOT}
        digs == {i \in 1..Len(s) : s[i] \in DigitCodes}
        p == IF dots = {} THEN Len(s) + 1 ELSE CHOOSE i \in dots : TRUE
        whole == SubSeq(s, 1, p - 1)
        frac == SubSeq(s, p + 1, Len(s))
    IN  IF /\ dots \cup digs = 1..Len(s)
           /\ Cardinality(dots) <= 1
           /\ digs # {}
           /\ Len(frac) <= 4
        THEN <<NumOf(whole) * 10000 + NumOf(frac) * Pow(10, 4 - Len(frac))>>
        ELSE <<>>

(***************************************************************************)
(* IEEE-754 double arithmetic of "abs(read - value) < 1e-2" (lines 185,    *)
(* 211).  The double nearest to the decimal n/10000 is                     *)
(*     n/10000 + RoundErr(n) * 2^(Exp2(n) - 52) / 625                      *)
(* (its 53 bit significand is n * 2^(48 - Exp2(n)) / 625 rounded to the    *)
(* nearest integer; 625 is odd, so there is no tie).  Rounding moves a     *)
(* value by less than 1/10000, so it decides the comparison only when the  *)
(* decimals are exactly 0.01 apart, and there the subtraction is exact     *)
(* (both doubles are multiples of the smaller one's quantum and their      *)
(* difference has fewer than 53 bits), so the comparison is between the    *)
(* rounding errors, scaled by 625 * 2^66.                                  *)
(***************************************************************************)
RECURSIVE ExpUp(_, _)
ExpUp(n, e) == IF Pow(2, e + 1) * 10000 <= n THEN ExpUp(n, e + 1) ELSE e

RECURSIVE ExpDown(_, _)
ExpDown(n, j) == IF n * Pow(2, j) < 10000 THEN ExpDown(n, j + 1) ELSE j

\* The binary exponent e of the decimal n/10000 > 0: 2^e <= n/10000 < 2^(e+1).
Exp2(n) == IF n >= 10000 THEN ExpUp(n, 0) ELSE -ExpDown(n, 0)

RECURSIVE Pow2Mod(_, _)
Pow2Mod(k, m) == IF k = 0 THEN 1 % m ELSE (2 * Pow2Mod(k - 1, m)) % m

\* The rounding error of n/10000 in units of 1/625 of the double's quantum.
RoundErr(n) ==
    IF n = 0 THEN 0
    ELSE LET t == ((n % 625) * Pow2Mod(48 - Exp2(n), 625)) % 625
         IN  IF t <= 312 THEN -t ELSE 625 - t

\* The rounding error of n/10000 in units of 2^-66 / 625.
ScaledErr(n) == IF n = 0 THEN 0 ELSE RoundErr(n) * Pow(2, Exp2(n) + 14)

Tolerance == 100

\* abs(float(a) - float(b)) < 1e-2 as Python evaluates it.
FloatWithinTolerance(a, b) ==
    LET hi == IF a >= b THEN a ELSE b
        lo == IF a >= b THEN b ELSE a
    IN  IF hi - lo # Tolerance
        THEN hi - lo < Tolerance
        ELSE ScaledErr(hi) - ScaledErr(lo) < ScaledErr(Tolerance)


(***************************************************************************)
(* The environment: what callers pass and what the device answers.         *)
(***************************************************************************)
\* Voltages a caller sets (0.00 V, 0.02 V) and currents (0.000 A, 1.000 A).
Voltages == {0, 200}
Currents == {0, 10000}

\* "KORAD KA3005P"
ModelPrefix == <<75, 79, 82, 65, 68, 32, 75, 65, 51, 48, 48, 53, 80>>
\* "KORAD KA3005P V5.5 SN:00123456"
IdnGood == ModelPrefix \o <<32, 86, 53, 46, 53, 32, 83, 78, 58, 48, 48, 49, 50, 51, 52, 53, 54>>
\* One character short, one character long, and "KORAD KA3005D ..." of the right length.
IdnShort == SubSeq(IdnGood, 1, Len(IdnGood) - 1)
IdnLong == IdnGood \o <<55>>
IdnWrong == [IdnGood EXCEPT ![13] = 68]

\* "00.00" "00.01" "00.02" "00.03" "0.004" "05.00" "0x.00", a lone NUL, silence.
VoltageReplies ==
    { <<48, 48, DOT, 48, 48>>, <<48, 48, DOT, 48, 49>>, <<48, 48, DOT, 48, 50>>,
      <<48, 48, DOT, 48, 51>>, <<48, DOT, 48, 48, 52>>, <<48, 53, DOT, 48, 48>>,
      <<48, LetterX, DOT, 48, 48>>, <<NUL>>, <<>> }

\* "0.000" "0.010" "1.000" "1.004" "x.000", "1" and a NUL, silence.
CurrentReplies ==
    { <<48, DOT, 48, 48, 48>>, <<48, DOT, 48, 49, 48>>, <<49, DOT, 48, 48, 48>>,
      <<49, DOT, 48, 48, 52>>, <<LetterX, DOT, 48, 48, 48>>, <<49, NUL>>, <<>> }

\* Every combination of the output bit 0x40 and the limit bit 0x01, with the other
\* five bits all clear or all set.
StatusBytes == {0, 1, 64, 65, 62, 63, 126, 127}

\* What the device queues when it receives cmd; a set command has no reply.
DeviceReplies(cmd) ==
    IF cmd = "*IDN?" THEN {IdnGood, IdnShort, IdnLong, IdnWrong}
    ELSE IF cmd \in {VQueryCommand(1), VOutCommand(1)} THEN VoltageReplies
    ELSE IF cmd \in {IQueryCommand(1), IOutCommand(1)} THEN CurrentReplies
    ELSE IF cmd = "STATUS?" THEN {<<b>> : b \in StatusBytes} \cup {<<>>}
    ELSE {<<>>}

(***************************************************************************)
(* State.                                                                  *)
(***************************************************************************)
VARIABLES
    timeoutRetry,    \* self._timeoutRetry
    readbackRetry,   \* self._readbackRetry
    life,            \* "new", "live", "dead" (__init__ raised), "exiting", "exited"
    port,            \* self._port: None, "supplied" (the caller's), "opened" (our own)
    portName,        \* self._portName: None or "name"
    atexit,          \* whether __close is registered with atexit
    identity,        \* self._serialNumber and self._softwareVersion (<<>> while unset)
    stack,           \* the frames of the calls in flight, the running one first
    ret,             \* how the last call ended: its frame, its value or its exception
    wire,            \* the commands written by the running (or last) top level call that
                     \* opens, tears down or serves a caller, in order, with its origin
    closed,          \* every transport close() was called on, in order
    rx,              \* the bytes the device has queued and the program has not read
    late,            \* reads that timed out although the device had queued a byte
    calls,           \* caller requested operations so far
    opens,           \* runs of __initialRequests so far
    openStatus,      \* None, "running", "ok", "failed": the latest open
    retried,         \* read-back mismatches since the running top level call began
    lastStatus,      \* <<reply>> to the last STATUS? of the top level call, or <<>>
    idnFailed        \* whether an open has failed its identity check

\* How a call ended: its frame as it was then, its exception or None, its value.
Outcome(frame, exc, value) == [fn |-> frame.fn, frame |-> frame, exc |-> exc, value |-> value]
NoOutcome == Outcome([fn |-> None], None, None)

config == <<timeoutRetry, readbackRetry>>
session == <<life, port, portName, atexit, identity>>
transport == <<closed, rx, late>>
observed == <<openStatus, retried, lastStatus, idnFailed>>
vars == <<config, session, stack, ret, wire, transport, calls, opens, observed>>

Init ==
    /\ timeoutRetry \in 0..MaxTimeoutRetry
    /\ readbackRetry \in 0..MaxReadbackRetry
    /\ life = "new"
    /\ port = None
    /\ portName = None
    /\ atexit = FALSE
    /\ identity = [serial |-> <<>>, version |-> <<>>]
    /\ stack = <<>>
    /\ ret = NoOutcome
    /\ wire = <<>>
    /\ closed = <<>>
    /\ rx = <<>>
    /\ late = 0
    /\ calls = 0
    /\ opens = 0
    /\ openStatus = None
    /\ retried = 0
    /\ lastStatus = <<>>
    /\ idnFailed = FALSE

(***************************************************************************)
(* Frames.                                                                 *)
(***************************************************************************)
Top == stack[1]
Bottom == stack[Len(stack)]
Running(fn, pc) == stack # <<>> /\ Top.fn = fn /\ Top.pc = pc
Idle == stack = <<>>

\* Who the running top level call works for.
Origin ==
    IF Bottom.fn \in {"__init__", "__enter__"} THEN "open"
    ELSE IF Bottom.fn = "__close" THEN "teardown"
    ELSE "caller"

InitialRequestsFrame == [fn |-> "__initialRequests", pc |-> 1]
IdnFrame(initialQuery) ==
    [fn |-> "_idn", pc |-> 123, initialQuery |-> initialQuery, repl |-> <<>>]
SetChannelEnableFrame(enable, channel) ==
    [fn |-> "_setChannelEnable", pc |-> 151, enable |-> enable, channel |-> channel,
     retries |-> readbackRetry, repl |-> <<>>, sent |-> 0, queried |-> 0]
SetVoltageFrame(voltage, channel) ==
    [fn |-> "_setVoltage", pc |-> 174, voltage |-> voltage, channel |-> channel,
     retries |-> readbackRetry, readVoltage |-> <<>>, sent |-> 0, queried |-> 0,
     allFar |-> TRUE]
SetCurrentFrame(current, channel) ==
    [fn |-> "_setCurrent", pc |-> 199, current |-> current, channel |-> channel,
     retries |-> readbackRetry, readCurrent |-> <<>>, sent |-> 0, queried |-> 0,
     allFar |-> TRUE]
GetVoltageFrame(channel) == [fn |-> "_getVoltage", pc |-> 222, channel |-> channel]
GetCurrentFrame(channel) == [fn |-> "_getCurrent", pc |-> 229, channel |-> channel]
\* raw records the bytes the STATUS? read received.
GetLimitModeFrame(channel) ==
    [fn |-> "_getLimitMode", pc |-> 240, channel |-> channel, raw |-> <<>>]
OffFrame == [fn |-> "_off", pc |-> 236]
\* Line 83 is done on entry.  writes, reads, timeouts and raw record the writes of
\* the command, the bytes asked for, the reads that timed out and the bytes received
\* (the terminator included).
SendCommandReplyFrame(cmd, replyLen) ==
    [fn |-> "_sendCommandReply", pc |-> 85, cmd |-> cmd, replyLen |-> replyLen,
     retries |-> timeoutRetry, res |-> <<>>, writes |-> 0, reads |-> 0, timeouts |-> 0,
     raw |-> <<>>]


(***************************************************************************)
(* Control: a call, a step within a frame, a return, an exception.  No     *)
(* frame of this program catches an exception of a callee (the only        *)
(* handlers, lines 178-183, 204-209, 223-226 and 230-233, wrap float()     *)
(* alone), so a raise unwinds the whole stack.  An exception out of        *)
(* __init__ leaves no object; atexit swallows one out of a registered      *)
(* __close.                                                                *)
(***************************************************************************)
Invoke(callee, pc) ==
    /\ stack' = <<callee, [Top EXCEPT !.pc = pc]>> \o Tail(stack)
    /\ ret' = NoOutcome
    /\ UNCHANGED <<life, openStatus>>

Goto(frame) ==
    /\ stack' = <<frame>> \o Tail(stack)
    /\ ret' = NoOutcome
    /\ UNCHANGED <<life, openStatus>>

Return(frame, value) ==
    /\ stack' = Tail(stack)
    /\ ret' = Outcome(frame, None, value)
    /\ life' = IF Len(stack) = 1 /\ life = "exiting" THEN "exited" ELSE life
    /\ openStatus' = IF Len(stack) = 1 /\ Origin = "open" THEN "ok" ELSE openStatus

\* An exception that only the calling frame would see, as an empty reply.
RaiseOneFrame(frame, exc) ==
    /\ stack' = Tail(stack)
    /\ ret' = Outcome(frame, exc, <<>>)
    /\ life' = IF Bottom.fn = "__init__" THEN "dead"
               ELSE IF life = "exiting" THEN "exited" ELSE life
    /\ openStatus' = IF Origin = "open" THEN "failed" ELSE openStatus

Raise(frame, exc) ==
    /\ stack' = <<>>
    /\ ret' = Outcome(frame, exc, None)
    /\ life' = IF Bottom.fn = "__init__" THEN "dead"
               ELSE IF life = "exiting" THEN "exited" ELSE life
    /\ openStatus' = IF Origin = "open" THEN "failed" ELSE openStatus

\* What the steps below the session level leave alone.
quiet == <<config, port, portName, atexit, closed, calls, opens>>

(***************************************************************************)
(* _sendCommand (76-80) and the transport.                                 *)
(***************************************************************************)
SendCommand(cmd) ==
    /\ wire' = Append(wire, [cmd |-> cmd, by |-> Origin])
    /\ \E reply \in DeviceReplies(cmd) : rx' = rx \o reply
    /\ UNCHANGED late

\* self._port.read(1): the next byte as a one character string, or "" on expiry:
\* no byte is queued, or the queued byte is late.  A byte left unread stays queued
\* and shifts every later reply, so the model lets the line delay a byte at most
\* MaxLate times, within a reply of fixed length, during the last call a caller makes
\* after the last open.
MayBeLate ==
    /\ late < MaxLate
    /\ Top.replyLen >= 0
    /\ Origin = "caller"
    /\ calls = MaxCalls
    /\ opens = MaxOpens

ReadOutcomes ==
    IF rx = <<>> THEN {<<>>}
    ELSE IF MayBeLate THEN {<<Head(rx)>>, <<>>}
    ELSE {<<Head(rx)>>}

(***************************************************************************)
(* _sendCommandReply (82-118).  timeoutRetry is a number here, so the test *)
(* of line 99 holds.                                                       *)
(***************************************************************************)
\* Line 94, and a reader for which a timeout never ends a reply.
TimeoutEndsReplyNever(replyLen) == FALSE

TimeoutEndsReply(replyLen) == replyLen < 0

\* Line 100, and the same test off by one.
MayRetryTimeoutOnceMore(retries) == retries >= 0

MayRetryTimeout(retries) == retries > 0

\* Line 105, and a reader that knows no terminator.
IsTerminatorNever(c) == FALSE

IsTerminator(c) == c = NUL

\* Lines 101-102: a tolerated timeout, and one that goes back to write the command.
AfterTimeoutResend(f) == [f EXCEPT !.retries = @ - 1, !.pc = 85]

AfterTimeout(f) == [f EXCEPT !.retries = @ - 1]

\* Line 108: a byte of the reply, and one that also refills the budget.
AfterByteRefill(f, c) == [f EXCEPT !.res = Append(@, c), !.retries = timeoutRetry]

AfterByte(f, c) == [f EXCEPT !.res = Append(@, c)]

\* Lines 109-110; every caller passes a replyLen, so it is never None.
ReplyComplete(res, replyLen) == Len(res) = replyLen

SendCommandReplyWrite ==
    /\ Running("_sendCommandReply", 85)
    /\ SendCommand(Top.cmd)
    /\ Goto([Top EXCEPT !.pc = 92, !.writes = @ + 1])
    /\ UNCHANGED <<quiet, identity, retried, lastStatus, idnFailed>>

SendCommandReplyRead ==
    /\ Running("_sendCommandReply", 92)
    /\ \E c \in ReadOutcomes :
        LET f == [Top EXCEPT !.reads = @ + 1,
                             !.timeouts = IF c = <<>> THEN @ + 1 ELSE @,
                             !.raw = @ \o c]
        IN  /\ rx' = IF c = <<>> THEN rx ELSE Tail(rx)
            /\ late' = IF c = <<>> /\ rx # <<>> THEN late + 1 ELSE late
            /\ IF Len(c) <= 0
               THEN IF TimeoutEndsReply(f.replyLen)
                    THEN Return(f, f.res)
                    ELSE IF MayRetryTimeout(f.retries)
                         THEN Goto(AfterTimeout(f))
                         ELSE Raise(f, "IOError: Serial port timeout")
               ELSE IF IsTerminator(c[1])
                    THEN Return(f, f.res)
                    ELSE LET g == AfterByte(f, c[1])
                         IN  IF ReplyComplete(g.res, g.replyLen)
                             THEN Return(g, g.res)
                             ELSE Goto(g)
    /\ UNCHANGED <<quiet, identity, wire, retried, lastStatus, idnFailed>>

(***************************************************************************)
(* _idn (122-144).                                                         *)
(***************************************************************************)
\* Lines 125-128, and a length test that only asks for enough characters.
IdentityOkAtLeast(repl) ==
    Len(repl) >= 30 /\ SubSeq(repl, 1, Len(ModelPrefix)) = ModelPrefix

IdentityOk(repl) == Len(repl) = 30 /\ SubSeq(repl, 1, Len(ModelPrefix)) = ModelPrefix

IdnQuery ==
    /\ Running("_idn", 123)
    /\ Invoke(SendCommandReplyFrame("*IDN?", -1), 125)
    /\ UNCHANGED <<quiet, identity, wire, rx, late, retried, lastStatus, idnFailed>>

IdnCheck ==
    /\ Running("_idn", 125)
    /\ LET repl == ret.value
           f == [Top EXCEPT !.repl = repl]
       IN  IF ~IdentityOk(repl)
           THEN /\ Raise(f, "IOError: Unknown IDN response")
                /\ idnFailed' = (idnFailed \/ Origin = "open")
                /\ UNCHANGED identity
           ELSE LET sn == SubSeq(repl, 23, Len(repl))
                    ver == SubSeq(repl, 16, 18)
                IN  /\ identity' = IF f.initialQuery
                                   THEN [serial |-> sn, version |-> ver]
                                   ELSE identity
                    /\ Return(f, [idn |-> repl, serial |-> sn, version |-> ver])
                    /\ UNCHANGED idnFailed
    /\ UNCHANGED <<quiet, wire, rx, late, retried, lastStatus>>

(***************************************************************************)
(* _setChannelEnable (147-167).                                            *)
(***************************************************************************)
MaxCycles == 4

OutputBit(b) == (b \div 64) % 2

\* Line 158 (in Python & binds tighter than ==), a check that trusts any status, and
\* one that only knows how to switch off.
StatusMatchesAny(b, enable) == TRUE

StatusMatchesOff(b, enable) == OutputBit(b) = 0

StatusMatches(b, enable) ==
    \/ (OutputBit(b) = 0 /\ ~enable)
    \/ (OutputBit(b) # 0 /\ enable)

\* Lines 163-167: the budget after a mismatch, and whether the call gives up.
EnableRetry(retries) ==
    IF retries > 0
    THEN IF retries - 1 = 0
         THEN [retries |-> 0, raise |-> TRUE]
         ELSE [retries |-> retries - 2, raise |-> FALSE]
    ELSE [retries |-> retries, raise |-> FALSE]

SetChannelEnableSend ==
    /\ Running("_setChannelEnable", 151)
    /\ Top.sent < MaxCycles
    /\ SendCommand(OutCommand(Top.enable))
    /\ Goto([Top EXCEPT !.pc = 157, !.sent = @ + 1])
    /\ UNCHANGED <<quiet, identity, retried, lastStatus, idnFailed>>

SetChannelEnableQuery ==
    /\ Running("_setChannelEnable", 157)
    /\ Invoke(SendCommandReplyFrame("STATUS?", 1), 158)
    /\ UNCHANGED <<quiet, identity, wire, rx, late, retried, lastStatus, idnFailed>>

SetChannelEnableCheck ==
    /\ Running("_setChannelEnable", 158)
    /\ LET repl == ret.value
           f == [Top EXCEPT !.repl = repl, !.queried = @ + 1]
           next == EnableRetry(f.retries)
       IN  /\ lastStatus' = <<repl>>
           /\ IF Len(repl) # 1
              THEN Raise(f, "TypeError: ord() of an empty string") /\ UNCHANGED retried
              ELSE IF StatusMatches(repl[1], f.enable)
              THEN Return(f, TRUE) /\ UNCHANGED retried
              ELSE /\ retried' = retried + 1
                   /\ IF next.raise
                      THEN Raise([f EXCEPT !.retries = next.retries],
                                 "IOError: Failed to set output status and read back correct state")
                      ELSE Goto([f EXCEPT !.retries = next.retries, !.pc = 151, !.repl = <<>>])
    /\ UNCHANGED <<quiet, identity, wire, rx, late, idnFailed>>

(***************************************************************************)
(* _setVoltage (170-193) and _setCurrent (195-219).                        *)
(***************************************************************************)
\* Lines 185 and 211.
ReadbackAccepted(read, value) == FloatWithinTolerance(read[1], value)

\* Lines 190-193 and 216-219.
ReadbackRetry(retries) ==
    IF retries > 0
    THEN [retries |-> retries - 1, raise |-> retries - 1 = 0]
    ELSE [retries |-> retries, raise |-> FALSE]

\* Whether a read-back is a number at least 0.01 from the value, as decimals.
Far(read, value) == read # <<>> /\ Abs(read[1] - value) >= Tolerance

SetVoltageSend ==
    /\ Running("_setVoltage", 174)
    /\ Top.sent < MaxCycles
    /\ SendCommand(VSetCommand(Top.channel, Top.voltage))
    /\ Goto([Top EXCEPT !.pc = 177, !.sent = @ + 1])
    /\ UNCHANGED <<quiet, identity, retried, lastStatus, idnFailed>>

SetVoltageQuery ==
    /\ Running("_setVoltage", 177)
    /\ Invoke(SendCommandReplyFrame(VQueryCommand(Top.channel), 5), 178)
    /\ UNCHANGED <<quiet, identity, wire, rx, late, retried, lastStatus, idnFailed>>

SetVoltageCheck ==
    /\ Running("_setVoltage", 178)
    /\ LET readVoltage == ParseFloat(ret.value)
           f == [Top EXCEPT !.readVoltage = readVoltage, !.queried = @ + 1,
                            !.allFar = @ /\ Far(readVoltage, Top.voltage)]
           next == ReadbackRetry(f.retries)
       IN  IF readVoltage = <<>>
           THEN Raise(f, "TypeError: NoneType - float") /\ UNCHANGED retried
           ELSE IF ReadbackAccepted(readVoltage, f.voltage)
           THEN Return(f, TRUE) /\ UNCHANGED retried
           ELSE /\ retried' = retried + 1
                /\ IF next.raise
                   THEN Raise([f EXCEPT !.retries = next.retries],
                              "IOError: Failed to read back set voltage")
                   ELSE Goto([f EXCEPT !.retries = next.retries, !.pc = 174,
                                       !.readVoltage = <<>>])
    /\ UNCHANGED <<quiet, identity, wire, rx, late, lastStatus, idnFailed>>

SetCurrentSend ==
    /\ Running("_setCurrent", 199)
    /\ Top.sent < MaxCycles
    /\ SendCommand(ISetCommand(Top.channel, Top.current))
    /\ Goto([Top EXCEPT !.pc = 202, !.sent = @ + 1])
    /\ UNCHANGED <<quiet, identity, retried, lastStatus, idnFailed>>

SetCurrentQuery ==
    /\ Running("_setCurrent", 202)
    /\ Invoke(SendCommandReplyFrame(IQueryCommand(Top.channel), 5), 204)
    /\ UNCHANGED <<quiet, identity, wire, rx, late, retried, lastStatus, idnFailed>>

SetCurrentCheck ==
    /\ Running("_setCurrent", 204)
    /\ LET repl == ret.value
           readCurrent == ParseFloat(SubSeq(repl, 1, IF Len(repl) < 5 THEN Len(repl) ELSE 5))
           f == [Top EXCEPT !.readCurrent = readCurrent, !.queried = @ + 1,
                            !.allFar = @ /\ Far(readCurrent, Top.current)]
           next == ReadbackRetry(f.retries)
       IN  IF readCurrent = <<>>
           THEN Raise(f, "TypeError: NoneType - float") /\ UNCHANGED retried
           ELSE IF ReadbackAccepted(readCurrent, f.current)
           THEN Return(f, TRUE) /\ UNCHANGED retried
           ELSE /\ retried' = retried + 1
                /\ IF next.raise
                   THEN Raise([f EXCEPT !.retries = next.retries],
                              "IOError: Failed to read back set current")
                   ELSE Goto([f EXCEPT !.retries = next.retries, !.pc = 199,
                                       !.readCurrent = <<>>])
    /\ UNCHANGED <<quiet, identity, wire, rx, late, lastStatus, idnFailed>>


(***************************************************************************)
(* _getVoltage (221-226), _getCurrent (228-233), _getLimitMode (239-249),  *)
(* _off (235-237), _isConnected (251-255).                                 *)
(***************************************************************************)
GetVoltageQuery ==
    /\ Running("_getVoltage", 222)
    /\ Invoke(SendCommandReplyFrame(VOutCommand(Top.channel), 5), 223)
    /\ UNCHANGED <<quiet, identity, wire, rx, late, retried, lastStatus, idnFailed>>

GetVoltageReturn ==
    /\ Running("_getVoltage", 223)
    /\ LET vRead == ParseFloat(ret.value)
       IN  IF vRead = <<>>
           THEN Raise(Top, "IOError: Unknown voltage response")
           ELSE Return(Top, vRead[1])
    /\ UNCHANGED <<quiet, identity, wire, rx, late, retried, lastStatus, idnFailed>>

GetCurrentQuery ==
    /\ Running("_getCurrent", 229)
    /\ Invoke(SendCommandReplyFrame(IOutCommand(Top.channel), 5), 230)
    /\ UNCHANGED <<quiet, identity, wire, rx, late, retried, lastStatus, idnFailed>>

GetCurrentReturn ==
    /\ Running("_getCurrent", 230)
    /\ LET vRead == ParseFloat(ret.value)
       IN  IF vRead = <<>>
           THEN Raise(Top, "IOError: Unknown voltage response")
           ELSE Return(Top, vRead[1])
    /\ UNCHANGED <<quiet, identity, wire, rx, late, retried, lastStatus, idnFailed>>

\* Lines 243-249, and the same with the two limit modes exchanged.
LimitModeOfExchanged(b) ==
    IF OutputBit(b) = 0 THEN "NONE"
    ELSE IF b % 2 = 0 THEN "VOLTAGE"
    ELSE "CURRENT"

LimitModeOf(b) ==
    IF OutputBit(b) = 0 THEN "NONE"
    ELSE IF b % 2 = 0 THEN "CURRENT"
    ELSE "VOLTAGE"

GetLimitModeQuery ==
    /\ Running("_getLimitMode", 240)
    /\ Invoke(SendCommandReplyFrame("STATUS?", 1), 241)
    /\ UNCHANGED <<quiet, identity, wire, rx, late, retried, lastStatus, idnFailed>>

GetLimitModeDecode ==
    /\ Running("_getLimitMode", 241)
    /\ LET repl == ret.value
           f == [Top EXCEPT !.raw = ret.frame.raw]
       IN  /\ lastStatus' = <<repl>>
           /\ IF Len(repl) <= 0
              THEN Raise(f, "IOError: Unknown status response")
              ELSE Return(f, LimitModeOf(repl[1]))
    /\ UNCHANGED <<quiet, identity, wire, rx, late, retried, idnFailed>>

OffCall ==
    /\ Running("_off", 236)
    /\ Invoke(SetChannelEnableFrame(FALSE, 1), 237)
    /\ UNCHANGED <<quiet, identity, wire, rx, late, retried, lastStatus, idnFailed>>

OffReturn ==
    /\ Running("_off", 237)
    /\ Return(Top, TRUE)
    /\ UNCHANGED <<quiet, identity, wire, rx, late, retried, lastStatus, idnFailed>>

(***************************************************************************)
(* __initialRequests (44-52).                                              *)
(***************************************************************************)
\* The calls of lines 46-52 in order, and the same with the protections disabled
\* before the output.
InitialRequestsPlanSwapped ==
    << [do |-> "_idn", cmd |-> "", value |-> 0, channel |-> 0],
       [do |-> "_sendCommand", cmd |-> "OCP0", value |-> 0, channel |-> 0],
       [do |-> "_sendCommand", cmd |-> "OVP0", value |-> 0, channel |-> 0],
       [do |-> "_sendCommand", cmd |-> "OUT0", value |-> 0, channel |-> 0],
       [do |-> "_setVoltage", cmd |-> "", value |-> 0, channel |-> 1],
       [do |-> "_setCurrent", cmd |-> "", value |-> 0, channel |-> 1] >>

InitialRequestsPlan ==
    << [do |-> "_idn", cmd |-> "", value |-> 0, channel |-> 0],
       [do |-> "_sendCommand", cmd |-> "OUT0", value |-> 0, channel |-> 0],
       [do |-> "_sendCommand", cmd |-> "OCP0", value |-> 0, channel |-> 0],
       [do |-> "_sendCommand", cmd |-> "OVP0", value |-> 0, channel |-> 0],
       [do |-> "_setVoltage", cmd |-> "", value |-> 0, channel |-> 1],
       [do |-> "_setCurrent", cmd |-> "", value |-> 0, channel |-> 1] >>

InitialRequestsStep ==
    /\ stack # <<>>
    /\ Top.fn = "__initialRequests"
    /\ IF Top.pc > Len(InitialRequestsPlan)
       THEN Return(Top, None) /\ UNCHANGED <<wire, rx, late>>
       ELSE LET s == InitialRequestsPlan[Top.pc]
            IN  CASE s.do = "_idn" ->
                       Invoke(IdnFrame(TRUE), Top.pc + 1) /\ UNCHANGED <<wire, rx, late>>
                  [] s.do = "_sendCommand" ->
                       SendCommand(s.cmd) /\ Goto([Top EXCEPT !.pc = @ + 1])
                  [] s.do = "_setVoltage" ->
                       /\ Invoke(SetVoltageFrame(s.value, s.channel), Top.pc + 1)
                       /\ UNCHANGED <<wire, rx, late>>
                  [] s.do = "_setCurrent" ->
                       /\ Invoke(SetCurrentFrame(s.value, s.channel), Top.pc + 1)
                       /\ UNCHANGED <<wire, rx, late>>
    /\ UNCHANGED <<quiet, identity, retried, lastStatus, idnFailed>>

\* A run of __initialRequests begins, called from __init__ (37) or __enter__ (60).
BeginOpen(parent) ==
    /\ stack' = <<InitialRequestsFrame, parent>>
    /\ ret' = NoOutcome
    /\ wire' = <<>>
    /\ opens' = opens + 1
    /\ openStatus' = "running"
    /\ retried' = 0
    /\ lastStatus' = <<>>

(***************************************************************************)
(* __init__ (8-42).  The port is a serial.Serial the caller opened, or the *)
(* name of one.                                                            *)
(***************************************************************************)
Construct ==
    /\ life = "new"
    /\ life' = "live"
    /\ \E p \in {"Serial", "name"} :
        IF p = "Serial"
        THEN /\ port' = "supplied"
             /\ portName' = None
             /\ BeginOpen([fn |-> "__init__", pc |-> 42])
             /\ UNCHANGED atexit
        ELSE /\ portName' = p
             /\ port' = None
             /\ atexit' = TRUE
             /\ stack' = <<>>
             /\ ret' = Outcome([fn |-> "__init__", pc |-> 42], None, None)
             /\ UNCHANGED <<wire, opens, openStatus, retried, lastStatus>>
    /\ UNCHANGED <<config, identity, transport, calls, idnFailed>>

ConstructRegister ==
    /\ Running("__init__", 42)
    /\ atexit' = TRUE
    /\ Return(Top, None)
    /\ UNCHANGED <<config, port, portName, identity, wire, transport, calls, opens,
                   retried, lastStatus, idnFailed>>

(***************************************************************************)
(* __enter__ (56-61).                                                      *)
(***************************************************************************)
Enter ==
    /\ life = "live"
    /\ Idle
    /\ IF (port = None) /\ ~(portName = None)
       THEN /\ opens < MaxOpens
            /\ port' = "opened"
            /\ BeginOpen([fn |-> "__enter__", pc |-> 61])
       ELSE /\ stack' = <<>>
            /\ ret' = Outcome([fn |-> "__enter__", pc |-> 61], None, "self")
            /\ UNCHANGED <<port, wire, opens, openStatus, retried, lastStatus>>
    /\ UNCHANGED <<config, life, portName, atexit, identity, transport, calls, idnFailed>>

EnterReturn ==
    /\ Running("__enter__", 61)
    /\ Return(Top, "self")
    /\ UNCHANGED <<quiet, identity, wire, rx, late, retried, lastStatus, idnFailed>>

(***************************************************************************)
(* __exit__ (63-65) and __close (67-72), which atexit also runs when the   *)
(* interpreter exits while it is registered.                               *)
(***************************************************************************)
\* Line 69, and the same test without its second half.
OwnsPortAny == ~(port = None)

OwnsPort == (~(port = None)) /\ (~(portName = None))

\* Lines 68-69.
Close(via) ==
    /\ atexit' = FALSE
    /\ wire' = <<>>
    /\ retried' = 0
    /\ lastStatus' = <<>>
    /\ IF OwnsPort
       THEN /\ stack' = <<[fn |-> "__close", pc |-> 70, via |-> via, port |-> port]>>
            /\ ret' = NoOutcome
       ELSE /\ stack' = <<>>
            /\ ret' = Outcome([fn |-> "__close", pc |-> 69, via |-> via, port |-> port],
                              None, None)

Exit ==
    /\ life = "live"
    /\ Idle
    /\ Close("__exit__")
    /\ UNCHANGED <<config, life, port, portName, identity, transport, calls, opens,
                   openStatus, idnFailed>>

AtExit ==
    /\ life = "live"
    /\ Idle
    /\ IF atexit
       THEN /\ Close("atexit")
            /\ life' = IF OwnsPort THEN "exiting" ELSE "exited"
       ELSE /\ life' = "exited"
            /\ UNCHANGED <<atexit, stack, ret, wire, retried, lastStatus>>
    /\ UNCHANGED <<config, port, portName, identity, transport, calls, opens,
                   openStatus, idnFailed>>

CloseOff ==
    /\ Running("__close", 70)
    /\ Invoke(OffFrame, 71)
    /\ UNCHANGED <<quiet, identity, wire, rx, late, retried, lastStatus, idnFailed>>

ClosePort ==
    /\ Running("__close", 71)
    /\ closed' = Append(closed, port)
    /\ port' = None
    /\ Return(Top, None)
    /\ UNCHANGED <<config, portName, atexit, identity, wire, rx, late, calls, opens,
                   retried, lastStatus, idnFailed>>

(***************************************************************************)
(* The operations a caller requests of a live session.  With no port yet   *)
(* (self._port is None) the first write raises AttributeError.             *)
(***************************************************************************)
CallerFrames ==
    {SetVoltageFrame(v, 1) : v \in Voltages}
        \cup {SetCurrentFrame(i, 1) : i \in Currents}
        \cup {SetChannelEnableFrame(e, 1) : e \in BOOLEAN}
        \cup {GetVoltageFrame(1), GetCurrentFrame(1), GetLimitModeFrame(1),
              IdnFrame(FALSE), OffFrame}

CallerRequest ==
    /\ life = "live"
    /\ Idle
    /\ calls < MaxCalls
    /\ calls' = calls + 1
    /\ retried' = 0
    /\ lastStatus' = <<>>
    /\ wire' = <<>>
    /\ \E f \in CallerFrames :
        IF port = None
        THEN stack' = <<>> /\ ret' = Outcome(f, "AttributeError: NoneType has no write", None)
        ELSE stack' = <<f>> /\ ret' = NoOutcome
    /\ UNCHANGED <<config, session, transport, opens, openStatus, idnFailed>>

IsConnected ==
    /\ life = "live"
    /\ Idle
    /\ ret' = Outcome([fn |-> "_isConnected", pc |-> 252], None, ~(port = None))
    /\ UNCHANGED <<config, session, stack, wire, transport, calls, opens, observed>>

Next ==
    \/ Construct
    \/ ConstructRegister
    \/ Enter
    \/ EnterReturn
    \/ Exit
    \/ AtExit
    \/ CloseOff
    \/ ClosePort
    \/ CallerRequest
    \/ IsConnected
    \/ InitialRequestsStep
    \/ IdnQuery
    \/ IdnCheck
    \/ SetChannelEnableSend
    \/ SetChannelEnableQuery
    \/ SetChannelEnableCheck
    \/ SetVoltageSend
    \/ SetVoltageQuery
    \/ SetVoltageCheck
    \/ SetCurrentSend
    \/ SetCurrentQuery
    \/ SetCurrentCheck
    \/ GetVoltageQuery
    \/ GetVoltageReturn
    \/ GetCurrentQuery
    \/ GetCurrentReturn
    \/ GetLimitModeQuery
    \/ GetLimitModeDecode
    \/ OffCall
    \/ OffReturn
    \/ SendCommandReplyWrite
    \/ SendCommandReplyRead

Spec == Init /\ [][Next]_vars


(***************************************************************************)
(* Observation helpers for the properties below.                           *)
(***************************************************************************)
WireCmds == [i \in 1..Len(wire) |-> wire[i].cmd]

IsPrefix(a, b) == Len(a) <= Len(b) /\ a = SubSeq(b, 1, Len(a))

\* A call has just ended (returned or raised) and nothing has run since.
Ended(fn) == ret.fn = fn

\* The frames of fn in flight.
InFlight(fn) == {stack[i] : i \in {j \in DOMAIN stack : stack[j].fn = fn}}

Timeout == "IOError: Serial port timeout"

OpenSequence ==
    <<"*IDN?", "OUT0", "OCP0", "OVP0", "VSET1:00.00", "VSET1?", "ISET1:0.000", "ISET1?">>

(***************************************************************************)
(* C1.  An open (from __init__ with an open transport, or from __enter__   *)
(* with a port name) in which the device identifies and both zero          *)
(* set-points are accepted at once writes *IDN?, OUT0, OCP0, OVP0,         *)
(* VSET1:00.00, VSET1?, ISET1:0.000, ISET1? in this order and nothing      *)
(* else, and no command of a caller's operation is written while an open   *)
(* is running or before one has run.                                       *)
(***************************************************************************)
C1_OpenSequence ==
    /\ (wire # <<>> /\ wire[1].by = "open" /\ retried = 0) =>
          /\ IsPrefix(WireCmds, OpenSequence)
          /\ \A i \in DOMAIN wire : wire[i].by = "open"
          /\ openStatus = "ok" => WireCmds = OpenSequence
    /\ \A i \in DOMAIN wire :
          wire[i].by = "caller" => (openStatus \in {"ok", "failed"} /\ opens >= 1)

C1_Witness ==
    /\ port = "opened"
    /\ openStatus = "ok"
    /\ Ended("__enter__")
    /\ retried = 0
    /\ WireCmds = OpenSequence

(***************************************************************************)
(* C2.  In a call of _setVoltage whose every read-back so far was a number *)
(* at least 0.01 from the requested voltage, the call fails with the       *)
(* read-back error after exactly readbackRetry cycles: it never completes  *)
(* more cycles than that, it has ended once it has completed that many,    *)
(* and it ends in the error with readbackRetry VSET and VSET? written.     *)
(***************************************************************************)
ReadbackError == "IOError: Failed to read back set voltage"

C2_FailsAfterBudget ==
    /\ \A f \in InFlight("_setVoltage") :
          (f.allFar /\ f.queried >= 1) => f.queried < readbackRetry
    /\ (Ended("_setVoltage") /\ ret.frame.allFar /\ ret.frame.queried >= 1) =>
          /\ ret.exc = ReadbackError
          /\ ret.frame.sent = readbackRetry
          /\ ret.frame.queried = readbackRetry

(***************************************************************************)
(* C3.  As claimed: _setVoltage accepts a read-back exactly when it is     *)
(* less than 0.01 from the requested voltage: a call that ends in success  *)
(* ends on such a read-back, and a call is never past a read-back that     *)
(* close without having ended in success.                                  *)
(***************************************************************************)
C3_AcceptsOnlyBelowTolerance ==
    /\ (Ended("_setVoltage") /\ ret.exc = None) =>
          Abs(ret.frame.readVoltage[1] - ret.frame.voltage) < Tolerance
    /\ (Ended("_setVoltage") /\ ret.exc = ReadbackError) => ret.frame.allFar
    /\ \A f \in InFlight("_setVoltage") : f.allFar

(***************************************************************************)
(* C4.  A read of a fixed length reply in which every one-byte read timed  *)
(* out fails with the timeout error after exactly timeoutRetry + 1 reads:  *)
(* while it runs it has made at most timeoutRetry reads, and it ends in    *)
(* the timeout error with timeoutRetry + 1.                                *)
(***************************************************************************)
C4_TimeoutAfterBudget ==
    /\ \A f \in InFlight("_sendCommandReply") :
          (f.replyLen >= 0 /\ f.reads = f.timeouts) => f.reads <= timeoutRetry
    /\ (Ended("_sendCommandReply") /\ ret.frame.replyLen >= 0
          /\ ret.frame.reads = ret.frame.timeouts) =>
          /\ ret.exc = Timeout
          /\ ret.frame.reads = timeoutRetry + 1

C4_Witness ==
    /\ Ended("_sendCommandReply")
    /\ ret.exc = Timeout
    /\ timeoutRetry = MaxTimeoutRetry
    /\ ret.frame.replyLen = 5
    /\ ret.frame.timeouts = ret.frame.reads
    /\ ret.frame.reads = timeoutRetry + 1

(***************************************************************************)
(* C5.  A read that receives a 0x00 byte ends there: it returns the bytes  *)
(* received before it, in order and without it, and no read of the call    *)
(* follows it (a call in flight has received no 0x00).                     *)
(***************************************************************************)
C5_TerminatorEndsReply ==
    /\ \A f \in InFlight("_sendCommandReply") :
          \A i \in DOMAIN f.raw : f.raw[i] # NUL
    /\ (Ended("_sendCommandReply") /\ \E i \in DOMAIN ret.frame.raw : ret.frame.raw[i] = NUL) =>
          /\ ret.exc = None
          /\ ret.frame.raw = ret.value \o <<NUL>>
          /\ \A i \in DOMAIN ret.value : ret.value[i] # NUL
          /\ ret.frame.reads = Len(ret.frame.raw) + ret.frame.timeouts

C5_Witness ==
    /\ Ended("_sendCommandReply")
    /\ ret.frame.replyLen = 5
    /\ ret.frame.raw = <<49, NUL>>
    /\ ret.value = <<49>>

(***************************************************************************)
(* C6.  As claimed: a teardown of a session that holds a transport, opened *)
(* by the session or supplied by the caller, writes OUT0, and leaves a     *)
(* supplied transport open.                                                *)
(***************************************************************************)
TeardownOff == [cmd |-> "OUT0", by |-> "teardown"]

C6_TeardownForcesOff ==
    (Ended("__close") /\ Idle /\ ret.frame.port # None) =>
        /\ \E i \in DOMAIN wire : wire[i] = TeardownOff
        /\ ret.frame.port = "supplied" => port = "supplied"

(***************************************************************************)
(* C7.  Only transports the session opened itself are ever closed: a       *)
(* session constructed on a supplied transport holds it, unclosed, after   *)
(* every teardown and every failure.                                       *)
(***************************************************************************)
C7_SuppliedNeverClosed ==
    /\ \A i \in DOMAIN closed : closed[i] = "opened"
    /\ (portName = None /\ life # "new") => (port = "supplied" /\ closed = <<>>)

C7_Witness ==
    /\ portName = None
    /\ port = "supplied"
    /\ closed = <<>>
    /\ calls = MaxCalls
    /\ Ended("__close")
    /\ ret.frame.via = "atexit"
    /\ life = "exited"

(***************************************************************************)
(* C8.  The transport is closed only at the end of a teardown that wrote   *)
(* OUT0 and then STATUS? and whose last STATUS? reply has bit 0x40 clear.  *)
(***************************************************************************)
OutputReportedOff ==
    /\ lastStatus # <<>>
    /\ Len(lastStatus[1]) = 1
    /\ OutputBit(lastStatus[1][1]) = 0

OffThenStatus ==
    /\ Len(wire) >= 2
    /\ wire[1] = TeardownOff
    /\ wire[Len(wire) - 1] = TeardownOff
    /\ wire[Len(wire)] = [cmd |-> "STATUS?", by |-> "teardown"]

C8_CloseAfterOutputOff ==
    /\ Running("__close", 71) => (OutputReportedOff /\ OffThenStatus)
    /\ (Ended("__close") /\ ret.frame.pc = 71) => (OutputReportedOff /\ OffThenStatus)

C8_Witness ==
    /\ Ended("__close")
    /\ closed = <<"opened">>
    /\ port = None
    /\ Len(wire) = 4
    /\ OutputReportedOff

(***************************************************************************)
(* C9.  As claimed: once an open has failed on the identity reply, nothing *)
(* is written to the transport any more, whichever way the session was     *)
(* opened.                                                                 *)
(***************************************************************************)
C9_NoWriteAfterIdentityFailure ==
    idnFailed => \A i \in DOMAIN wire : wire[i] = [cmd |-> "*IDN?", by |-> "open"]

(***************************************************************************)
(* C10.  As claimed: _getLimitMode, on a STATUS? read that received the    *)
(* one byte b, returns NONE when bit 0x40 of b is clear, CURRENT when it   *)
(* is set and bit 0x01 clear, VOLTAGE when both are set, for every b       *)
(* including 0x00.                                                         *)
(***************************************************************************)
ExpectedLimitMode(b) ==
    IF (b \div 64) % 2 = 0 THEN "NONE"
    ELSE IF b % 2 = 0 THEN "CURRENT" ELSE "VOLTAGE"

C10_LimitModeOfEveryByte ==
    (Ended("_getLimitMode") /\ Len(ret.frame.raw) = 1) =>
        /\ ret.exc = None
        /\ ret.value = ExpectedLimitMode(ret.frame.raw[1])

(***************************************************************************)
(* C11.  As claimed: a status byte 0x40 decodes to output enabled with     *)
(* limit mode NONE, 0x41 to output enabled with VOLTAGE, 0x00 to output    *)
(* disabled with NONE.  The limit mode is what _getLimitMode returns on    *)
(* that byte, the output state what _setChannelEnable compares with the    *)
(* request.                                                                *)
(***************************************************************************)
StatusRead(fn, b) ==
    /\ Ended(fn)
    /\ IF fn = "_getLimitMode" THEN ret.frame.raw = <<b>> ELSE ret.frame.repl = <<b>>

C11_StatusDecodingAsClaimed ==
    /\ StatusRead("_getLimitMode", 64) => (ret.exc = None /\ ret.value = "NONE")
    /\ StatusRead("_getLimitMode", 65) => (ret.exc = None /\ ret.value = "VOLTAGE")
    /\ StatusRead("_getLimitMode", 0) => (ret.exc = None /\ ret.value = "NONE")
    /\ \A b \in {64, 65} :
          StatusRead("_setChannelEnable", b) => (ret.exc = None <=> ret.frame.enable)

(***************************************************************************)
(* C11, amended.  A status byte 0x40 decodes to output enabled with limit  *)
(* mode CURRENT (bit 0x01 clear), 0x41 to output enabled with VOLTAGE; a   *)
(* status value 0x00 decodes to output disabled with NONE, but a 0x00 byte *)
(* read from the transport ends the reply before it is decoded, so         *)
(* _getLimitMode does not return a limit mode on it.                       *)
(***************************************************************************)
C11_StatusDecoding ==
    /\ StatusRead("_getLimitMode", 64) => (ret.exc = None /\ ret.value = "CURRENT")
    /\ StatusRead("_getLimitMode", 65) => (ret.exc = None /\ ret.value = "VOLTAGE")
    /\ \A b \in {64, 65} :
          StatusRead("_setChannelEnable", b) => (ret.exc = None <=> ret.frame.enable)
    /\ LimitModeOf(0) = "NONE" /\ OutputBit(0) = 0
    /\ StatusRead("_getLimitMode", 0) => ret.exc # None

C11_Witness ==
    /\ StatusRead("_getLimitMode", 64)
    /\ ret.exc = None
    /\ ret.value = "CURRENT"

(***************************************************************************)
(* C12.  _idn succeeds exactly when the assembled reply has 30 characters  *)
(* of which the first 13 are "KORAD KA3005P"; it then reports characters   *)
(* [15,18) as version and [22,30) as serial number (and stores them when   *)
(* it is the query of an open); on any other reply it ends in the identity *)
(* error and stores no identity.                                           *)
(***************************************************************************)
IdentityError == "IOError: Unknown IDN response"

C12_IdentityParse ==
    (Ended("_idn") /\ ret.frame.pc = 125) =>
        LET repl == ret.frame.repl
            good == /\ Len(repl) = 30
                    /\ \A i \in 1..13 : repl[i] = ModelPrefix[i]
        IN  IF good
            THEN /\ ret.exc = None
                 /\ ret.value.idn = repl
                 /\ ret.value.version = <<repl[16], repl[17], repl[18]>>
                 /\ ret.value.serial = [i \in 1..8 |-> repl[22 + i]]
                 /\ ret.frame.initialQuery =>
                       identity = [serial |-> ret.value.serial, version |-> ret.value.version]
            ELSE /\ ret.exc = IdentityError
                 /\ (ret.frame.initialQuery /\ opens = 1) =>
                       identity = [serial |-> <<>>, version |-> <<>>]

C12_Witness ==
    /\ Ended("_idn")
    /\ ret.exc = None
    /\ ret.frame.repl = IdnGood
    /\ ret.value.version = <<53, 46, 53>>
    /\ ret.value.serial = <<48, 48, 49, 50, 51, 52, 53, 54>>

(***************************************************************************)
(* C13.  As claimed: the retry loops of _setVoltage, _setCurrent and       *)
(* _setChannelEnable are bounded by the budget, so every call ends.  A     *)
(* call that starts another cycle after a failed one with nothing left of  *)
(* its budget never changes the budget again (lines 163, 190, 216) and     *)
(* goes on for as long as the device keeps failing it; in a program whose  *)
(* calls all end, a call in flight after a failed cycle has budget left.   *)
(***************************************************************************)
SetOperations == {"_setVoltage", "_setCurrent", "_setChannelEnable"}

C13_RetryLoopsEnd ==
    \A fn \in SetOperations :
        \A f \in InFlight(fn) : f.queried >= 1 => f.retries >= 1

(***************************************************************************)
(* C14.  _setChannelEnable(enable) returns success only when the reply to  *)
(* the STATUS? of its last cycle, the last status read, is one byte whose  *)
(* bit 0x40 is set exactly when enable is true.                            *)
(***************************************************************************)
C14_EnableSuccessOnlyOnMatch ==
    (Ended("_setChannelEnable") /\ ret.exc = None) =>
        /\ Len(ret.frame.repl) = 1
        /\ ((ret.frame.repl[1] \div 64) % 2 = 1) <=> ret.frame.enable
        /\ lastStatus = <<ret.frame.repl>>
        /\ wire[Len(wire)].cmd = "STATUS?"
        /\ wire[Len(wire) - 1].cmd = OutCommand(ret.frame.enable)

C14_Witness ==
    /\ Ended("_setChannelEnable")
    /\ ret.exc = None
    /\ ret.frame.enable
    /\ ret.frame.repl = <<65>>
    /\ ret.frame.queried = 2

(***************************************************************************)
(* C15.  As claimed, for a budget of at least one: _setChannelEnable       *)
(* against a device whose status never matches performs exactly            *)
(* readbackRetry cycles of OUT and STATUS? and then fails with the         *)
(* read-back error.                                                        *)
(***************************************************************************)
EnableError == "IOError: Failed to set output status and read back correct state"

C15_EnableFailsAfterBudget ==
    readbackRetry >= 1 =>
        /\ \A f \in InFlight("_setChannelEnable") :
              f.queried >= 1 => f.queried < readbackRetry
        /\ (Ended("_setChannelEnable") /\ ret.exc = EnableError) =>
              /\ ret.frame.sent = readbackRetry
              /\ ret.frame.queried = readbackRetry

(***************************************************************************)
(* C16.  As claimed: in _setVoltage and _setCurrent a read-back that does  *)
(* not parse as a number counts as a mismatch; the call does not end on it *)
(* with an error of its own, it ends on it only with the read-back error   *)
(* when the budget is used up.                                             *)
(***************************************************************************)
Unparsed(fn) ==
    /\ Ended(fn)
    /\ ret.frame.queried >= 1
    /\ IF fn = "_setVoltage" THEN ret.frame.readVoltage = <<>> ELSE ret.frame.readCurrent = <<>>

C16_ParseFailureIsMismatch ==
    /\ Unparsed("_setVoltage") =>
          (ret.exc = ReadbackError /\ ret.frame.queried = readbackRetry)
    /\ Unparsed("_setCurrent") =>
          (ret.exc = "IOError: Failed to read back set current"
              /\ ret.frame.queried = readbackRetry)

(***************************************************************************)
(* C17.  A timeout error of the read of a read-back reply ends the whole   *)
(* call of _setVoltage, _setCurrent or _setChannelEnable at once: the      *)
(* query it was reading for stays the last command written, and the        *)
(* commands of the call are one set and one query for every mismatch so    *)
(* far and one more pair for the cycle that timed out.                     *)
(***************************************************************************)
TimedOut == Ended("_sendCommandReply") /\ ret.exc = Timeout

InSetOperation ==
    /\ wire # <<>>
    /\ wire[1].by = "caller"
    /\ \/ ret.frame.cmd \in {VQueryCommand(1), IQueryCommand(1)}
       \/ ret.frame.cmd = "STATUS?" /\ Len(wire) >= 2

C17_TimeoutPropagates ==
    TimedOut =>
        /\ Idle
        /\ wire[Len(wire)].cmd = ret.frame.cmd
        /\ InSetOperation =>
              /\ Len(wire) = 2 * (retried + 1)
              /\ \A i \in 1..(retried + 1) :
                    /\ wire[2 * i].cmd = ret.frame.cmd
                    /\ wire[2 * i - 1].cmd \in
                          {VSetCommand(1, v) : v \in Voltages}
                              \cup {ISetCommand(1, a) : a \in Currents}
                              \cup {"OUT0", "OUT1"}

C17_Witness ==
    /\ TimedOut
    /\ Idle
    /\ readbackRetry = MaxReadbackRetry
    /\ retried = 1
    /\ WireCmds = <<"VSET1:00.02", "VSET1?", "VSET1:00.02", "VSET1?">>

(***************************************************************************)
(* C18.  One call of _sendCommandReply writes its command exactly once,    *)
(* before its first read, whatever number of timeouts it tolerates: before *)
(* the write it has read nothing, while it reads and when it has ended it  *)
(* has written once.                                                       *)
(***************************************************************************)
C18_CommandWrittenOnce ==
    /\ \A f \in InFlight("_sendCommandReply") :
          /\ f.pc = 85 => (f.writes = 0 /\ f.reads = 0)
          /\ f.pc = 92 => f.writes = 1
          /\ (f.pc = 92 /\ f.reads = 0) => wire[Len(wire)].cmd = f.cmd
    /\ Ended("_sendCommandReply") => (ret.frame.writes = 1 /\ ret.frame.reads >= 1)

C18_Witness ==
    /\ Ended("_sendCommandReply")
    /\ ret.exc = None
    /\ ret.frame.timeouts = 2
    /\ ret.frame.writes = 1
    /\ Len(ret.value) = 5

(***************************************************************************)
(* C19.  A read with the variable length policy (replyLen < 0, the         *)
(* identity query) ends on its first timeout in a normal return of the     *)
(* bytes received so far, with the timeout budget untouched and no timeout *)
(* error, whatever timeoutRetry is.                                        *)
(***************************************************************************)
C19_TimeoutEndsIdentityReply ==
    /\ \A f \in InFlight("_sendCommandReply") :
          f.replyLen < 0 => (f.timeouts = 0 /\ f.retries = timeoutRetry)
    /\ (Ended("_sendCommandReply") /\ ret.frame.replyLen < 0) =>
          /\ ret.exc = None
          /\ ret.frame.retries = timeoutRetry
          /\ ret.frame.timeouts <= 1
          /\ ret.frame.timeouts = 1 =>
                (ret.value = ret.frame.raw /\ ret.frame.reads = Len(ret.frame.raw) + 1)

C19_Witness ==
    /\ Ended("_sendCommandReply")
    /\ ret.frame.replyLen < 0
    /\ timeoutRetry = 0
    /\ ret.frame.timeouts = 1
    /\ ret.exc = None
    /\ ret.value = IdnGood

(***************************************************************************)
(* C20.  The timeout budget of a read of fixed length is one budget for    *)
(* the whole reply: the timeouts so far and what is left of the budget     *)
(* always add up to timeoutRetry, however many bytes arrived in between;   *)
(* the read ends in the timeout error exactly on its (timeoutRetry + 1)-th *)
(* timeout and otherwise returns the reply after at most timeoutRetry.     *)
(***************************************************************************)
C20_TimeoutBudgetShared ==
    /\ \A f \in InFlight("_sendCommandReply") :
          f.replyLen >= 0 => (f.retries + f.timeouts = timeoutRetry /\ f.retries >= 0)
    /\ (Ended("_sendCommandReply") /\ ret.frame.replyLen >= 0) =>
          IF ret.exc = None
          THEN /\ ret.frame.timeouts <= timeoutRetry
               /\ ret.frame.retries + ret.frame.timeouts = timeoutRetry
               /\ \/ Len(ret.value) = ret.frame.replyLen
                  \/ ret.frame.raw = ret.value \o <<NUL>>
          ELSE /\ ret.exc = Timeout
               /\ ret.frame.timeouts = timeoutRetry + 1
               /\ Len(ret.frame.res) < ret.frame.replyLen

C20_Witness ==
    /\ TimedOut
    /\ ret.frame.replyLen = 5
    /\ timeoutRetry = 1
    /\ ret.frame.timeouts = 2
    /\ Len(ret.frame.raw) = 4
    /\ late = 2

=============================================================================
